---- MODULE Spec2Model ----
(***************************************************************************)
(* Model of src/content_generator.py: generate_content_data (the mock      *)
(* content generator) and main (the runner that writes the record to       *)
(* output/<safe_topic>_<timestamp>.json).                                  *)
(*                                                                         *)
(* Python strings that the code transforms (topic, filename, timestamp)    *)
(* are sequences of one-character strings; literals that the code only     *)
(* copies are TLA+ strings.                                                *)
(***************************************************************************)
EXTENDS Integers, Sequences, FiniteSets, TLC

VARIABLES
    pc,           \* position of the current invocation of main
    topic,        \* main's argument
    output_data,  \* <<>> before line 114 has returned, <<record>> after
    filename,     \* line 123
    filepath,     \* line 124
    f,            \* the file object of line 128: "none", "open", "closed"
    printed,      \* what the invocation has printed so far
    exc,          \* the exception that left main, "none" if none did
    raised,       \* where the invocation's first exception came from
    trace,        \* the steps the invocation has taken, in order
    before,       \* the paths under output/ when the invocation started
    stamp,        \* the clock reading used by line 123
    runs,         \* invocations so far
    now,          \* the wall clock (datetime.now()), seconds since midnight
    output_dir,   \* what the path "output" is: "absent", "dir", "file"
    cwd_writable, \* whether a directory can be created in the working directory
    files         \* the files under output/: path -> what has been written

vars == <<pc, topic, output_data, filename, filepath, f, printed, exc, raised,
          trace, before, stamp, runs, now, output_dir, cwd_writable, files>>

-----------------------------------------------------------------------------
(* Bounds *)

MaxRuns == 2
MaxElapsed == 4

-----------------------------------------------------------------------------
(* Characters and strings *)

\* chr(0), which no path may contain
NUL == "NUL"

Str_AI_in_Creative_Automation ==
    <<"A","I"," ","i","n"," ","C","r","e","a","t","i","v","e"," ",
      "A","u","t","o","m","a","t","i","o","n">>

Str_AI_Creative_Test ==
    <<"A","I","/","C","r","e","a","t","i","v","e",":"," ","T","e","s","t">>

Str_NulTopic == <<"Q", NUL>>

Topics == {Str_AI_in_Creative_Automation, Str_AI_Creative_Test, Str_NulTopic}

UpperToLower ==
    [c \in {"A","B","C","D","E","F","G","H","I","J","K","L","M","N","O","P",
            "Q","R","S","T","U","V","W","X","Y","Z"} |->
        CASE c = "A" -> "a" [] c = "B" -> "b" [] c = "C" -> "c" [] c = "D" -> "d"
          [] c = "E" -> "e" [] c = "F" -> "f" [] c = "G" -> "g" [] c = "H" -> "h"
          [] c = "I" -> "i" [] c = "J" -> "j" [] c = "K" -> "k" [] c = "L" -> "l"
          [] c = "M" -> "m" [] c = "N" -> "n" [] c = "O" -> "o" [] c = "P" -> "p"
          [] c = "Q" -> "q" [] c = "R" -> "r" [] c = "S" -> "s" [] c = "T" -> "t"
          [] c = "U" -> "u" [] c = "V" -> "v" [] c = "W" -> "w" [] c = "X" -> "x"
          [] c = "Y" -> "y" [] c = "Z" -> "z"]

\* str.replace(old, new) for one-character old and new
Replace(s, old, new) == [i \in 1..Len(s) |-> IF s[i] = old THEN new ELSE s[i]]

\* str.lower()
Lower(s) ==
    [i \in 1..Len(s) |-> IF s[i] \in DOMAIN UpperToLower THEN UpperToLower[s[i]] ELSE s[i]]

\* line 122 with ".replace(':', '_')" left out
SafeTopicNoColon(t) == Lower(Replace(Replace(t, " ", "_"), "/", "_"))

\* line 122
SafeTopic(t) == Lower(Replace(Replace(Replace(t, " ", "_"), "/", "_"), ":", "_"))

Digit(n) == CASE n = 0 -> "0" [] n = 1 -> "1" [] n = 2 -> "2" [] n = 3 -> "3"
              [] n = 4 -> "4" [] n = 5 -> "5" [] n = 6 -> "6" [] n = 7 -> "7"
              [] n = 8 -> "8" [] n = 9 -> "9"

\* %m, %d, %H, %M, %S: two digits, zero-padded
Pad2(n) == <<Digit((n \div 10) % 10), Digit(n % 10)>>

\* %Y for a four-digit year
Pad4(n) == <<Digit((n \div 1000) % 10), Digit((n \div 100) % 10)>> \o Pad2(n % 100)

\* the day the model's clock runs in
Today == [year |-> 2025, month |-> 11, day |-> 2]

\* the first clock reading: 01:29:57
StartSec == 1 * 3600 + 29 * 60 + 57

\* strftime('%Y%m%d_%H%M%S') of the clock reading t
Strftime(t) ==
    Pad4(Today.year) \o Pad2(Today.month) \o Pad2(Today.day) \o <<"_">>
        \o Pad2(t \div 3600) \o Pad2((t \div 60) % 60) \o Pad2(t % 60)

\* datetime.isoformat() of the clock reading t (whole seconds)
Isoformat(t) ==
    Pad4(Today.year) \o <<"-">> \o Pad2(Today.month) \o <<"-">> \o Pad2(Today.day)
        \o <<"T">> \o Pad2(t \div 3600) \o <<":">> \o Pad2((t \div 60) % 60)
        \o <<":">> \o Pad2(t % 60)

\* line 123
Filename(t, clock) == SafeTopic(t) \o <<"_">> \o Strftime(clock) \o <<".","j","s","o","n">>

Str_output == <<"o","u","t","p","u","t">>

\* line 124: os.path.join(output_dir, filename)
Join(dir, name) == dir \o <<"/">> \o name

-----------------------------------------------------------------------------
(* generate_content_data *)

\* lines 33-37: the names of the personas list, in order
personas ==
    << [name |-> "Founders / Decision-Makers",
        focus |-> "ROI, Growth, Efficiency (Use results-driven, financial language)"],
       [name |-> "Creative Professionals",
        focus |-> "Inspiration, Time-saving tools, Boosting creativity (Use motivational, inspiring language)"],
       [name |-> "Operations Managers",
        focus |-> "Workflows, Integrations, Reliability, Automation (Use practical, structured, and reliable language)"] >>

\* lines 75-84
blog ==
    [title |-> "The AI Revolution in Creative Workflows: Say Goodbye to Repetitive Tasks",
     outline |->
        << "Introduction: The Automation Challenge for Creative Agencies",
           "AI's Core Role in Content Generation and Iteration",
           "Boosting Efficiency: How AI Handles Repetitive Tasks (e.g., asset management, formatting)",
           "Future Outlook: The New Paradigm of Human-AI Collaboration and NovaMind's Role" >>,
     draft_content |-> "Creative agencies have long struggled with the dilemma of efficiency versus innovation. Designers and copywriters spend significant time on low-value, repetitive tasks like asset management, format conversions, and minor draft corrections. However, this is rapidly changing with the advancements in artificial intelligence. Tools like NovaMind are becoming powerful aids in the creative workflow, acting as intelligent collaborators rather than simple automation scripts. AI can take over time-consuming data processing, preliminary layout designs, and automatic ad resizing according to brand guidelines. This liberation allows creative professionals to focus on work that truly requires human insight and emotional intelligence: strategic planning and high-concept ideation. AI isn't replacing human creativity; it's replacing drudgery. By outsourcing the tedious parts of daily operations to AI, creative teams can dedicate more energy to experimentation and innovation, ultimately maximizing the Return on Investment (ROI) for creative projects and delivering faster, more customized services to clients."]

\* lines 85-104 with the second and third newsletters exchanged
newsletters_swapped ==
    << [persona |-> "Founders / Decision-Makers",
        focus |-> "ROI, Growth, Efficiency",
        subject_line |-> "30% Margin Growth: How AI Minimizes Your Agency's Operational Costs",
        body |-> "Founders, tired of manual labor eating into your margins? Our latest blog reveals how AI delivers unprecedented efficiency in creative workflows. NovaMind automation can handle 40% of low-value tasks, letting your team focus on high-revenue projects. Read the full post to see how AI ensures your growth targets are met and delivers tangible ROI."],
       [persona |-> "Operations Managers",
        focus |-> "Workflows, Integrations, Reliability",
        subject_line |-> "One-Click Deployment: The Integration Secrets to Reliable AI Workflows",
        body |-> "Ops Managers, workflow reliability is everything. Our new blog focuses on how AI tools seamlessly integrate into your existing Notion and Zapier environments. Learn how NovaMind ensures data sync, task automation, and stable workflow execution, minimizing bottlenecks and boosting team efficiency. Check out the detailed integration strategies!"],
       [persona |-> "Creative Professionals",
        focus |-> "Inspiration, Time-saving tools",
        subject_line |-> "Unleash Your Superpower: AI is Your Creativity Accelerator",
        body |-> "Fellow creatives, stop getting bogged down by details! AI doesn't limit your imagination--it powers it. It quickly generates mockups and explores different styles, giving you more time for deep conceptual thinking and experimentation. Click to read our blog and discover how NovaMind saves you hours, keeping your creative flow unstoppable!"] >>

\* lines 85-104 (the dash of line 96 is written "--")
newsletters ==
    << [persona |-> "Founders / Decision-Makers",
        focus |-> "ROI, Growth, Efficiency",
        subject_line |-> "30% Margin Growth: How AI Minimizes Your Agency's Operational Costs",
        body |-> "Founders, tired of manual labor eating into your margins? Our latest blog reveals how AI delivers unprecedented efficiency in creative workflows. NovaMind automation can handle 40% of low-value tasks, letting your team focus on high-revenue projects. Read the full post to see how AI ensures your growth targets are met and delivers tangible ROI."],
       [persona |-> "Creative Professionals",
        focus |-> "Inspiration, Time-saving tools",
        subject_line |-> "Unleash Your Superpower: AI is Your Creativity Accelerator",
        body |-> "Fellow creatives, stop getting bogged down by details! AI doesn't limit your imagination--it powers it. It quickly generates mockups and explores different styles, giving you more time for deep conceptual thinking and experimentation. Click to read our blog and discover how NovaMind saves you hours, keeping your creative flow unstoppable!"],
       [persona |-> "Operations Managers",
        focus |-> "Workflows, Integrations, Reliability",
        subject_line |-> "One-Click Deployment: The Integration Secrets to Reliable AI Workflows",
        body |-> "Ops Managers, workflow reliability is everything. Our new blog focuses on how AI tools seamlessly integrate into your existing Notion and Zapier environments. Learn how NovaMind ensures data sync, task automation, and stable workflow execution, minimizing bottlenecks and boosting team efficiency. Check out the detailed integration strategies!"] >>

\* lines 73-106: the dictionary generate_content_data returns for topic t when
\* line 105 reads the clock at `clock`
mock_ai_output(t, clock) ==
    [topic |-> t,
     blog |-> blog,
     newsletters |-> newsletters,
     generation_date |-> Isoformat(clock)]

\* line 70: time.sleep(3)
SleepSecs == 3

\* line 130: json.dump writes the dictionary's members in insertion order
JsonItems(d) ==
    << [key |-> "topic", value |-> d.topic],
       [key |-> "blog", value |-> d.blog],
       [key |-> "newsletters", value |-> d.newsletters],
       [key |-> "generation_date", value |-> d.generation_date] >>

-----------------------------------------------------------------------------
(* What the program prints *)

MsgPreparing == "--- 1. Preparing Content Generation Task ---"
MsgTopic == "Topic: {topic}"
MsgModel == "Target Model: {model_name}"
MsgSimulating == "--- 2. Simulating AI Generation (Waiting 3 seconds)... ---"
MsgSaved == "--- 3. Results Saved Successfully ---"
MsgSavedTo == "Content successfully saved to: {filepath}"
MsgPhase2 == "This JSON file is the input for Phase 2: CRM Distribution and Performance Analysis."
MsgFailed == "Failed to save file: {e}"

-----------------------------------------------------------------------------
(* The state after construction: no invocation yet *)

NoFiles == [p \in {} |-> <<>>]

Init ==
    /\ pc = "idle"
    /\ topic = <<>>
    /\ output_data = <<>>
    /\ filename = <<>>
    /\ filepath = <<>>
    /\ f = "none"
    /\ printed = <<>>
    /\ exc = "none"
    /\ raised = <<>>
    /\ trace = <<>>
    /\ before = {}
    /\ stamp = 0
    /\ runs = 0
    /\ now = StartSec
    /\ output_dir \in {"absent", "dir", "file"}
    /\ cwd_writable \in BOOLEAN
    /\ files = NoFiles

-----------------------------------------------------------------------------
(* The environment: the wall clock read by datetime.now() *)

\* a second passes between the clock readings of line 105 and line 123 (the
\* program reads the clock nowhere else, and line 70 accounts for the time
\* before line 105)
Tick ==
    /\ pc = "filename"
    /\ now < StartSec + MaxElapsed
    /\ now' = now + 1
    /\ UNCHANGED <<pc, topic, output_data, filename, filepath, f, printed, exc,
                   raised, trace, before, stamp, runs, output_dir, cwd_writable, files>>

\* the wall clock is set back before an invocation reads it (the end of
\* daylight saving time, a clock correction): datetime.now() is local
\* wall-clock time, not monotonic
ClockSetBack ==
    /\ pc = "generate"
    /\ \E t \in StartSec..(now - 1) : now' = t
    /\ UNCHANGED <<pc, topic, output_data, filename, filepath, f, printed, exc,
                   raised, trace, before, stamp, runs, output_dir, cwd_writable, files>>

-----------------------------------------------------------------------------
(* main *)

\* line 110 / line 140: main is called with topic t, in a fresh process or again
Invoke ==
    /\ pc \in {"idle", "done", "crashed"}
    /\ runs < MaxRuns
    /\ \E t \in Topics : topic' = t
    /\ pc' = "generate"
    /\ output_data' = <<>>
    /\ filename' = <<>>
    /\ filepath' = <<>>
    /\ f' = "none"
    /\ printed' = <<>>
    /\ exc' = "none"
    /\ raised' = <<>>
    /\ trace' = <<>>
    /\ before' = DOMAIN files
    /\ stamp' = 0
    /\ runs' = runs + 1
    /\ UNCHANGED <<now, output_dir, cwd_writable, files>>

\* the step of main that follows line 114
AfterGenerateSkipsDir == "filename"

AfterGenerate == "ensure_dir"

\* line 114, lines 28-108: generate_content_data returns; the sleep of line 70
\* takes SleepSecs of the clock
GenerateReturns ==
    /\ pc = "generate"
    /\ now + SleepSecs <= StartSec + MaxElapsed
    /\ now' = now + SleepSecs
    /\ output_data' = <<mock_ai_output(topic, now + SleepSecs)>>
    /\ printed' = printed \o <<MsgPreparing, MsgTopic, MsgModel, MsgSimulating>>
    /\ trace' = Append(trace, "generate")
    /\ pc' = AfterGenerate
    /\ UNCHANGED <<topic, filename, filepath, f, exc, raised, before, stamp, runs,
                   output_dir, cwd_writable, files>>

\* line 114: generate_content_data raises (the sleep of line 70 is interrupted);
\* the call is outside the try of line 127
GenerateRaises ==
    /\ pc = "generate"
    /\ printed' = printed \o <<MsgPreparing, MsgTopic, MsgModel, MsgSimulating>>
    /\ raised' = <<[site |-> "generate", kind |-> "KeyboardInterrupt"]>>
    /\ exc' = "KeyboardInterrupt"
    /\ pc' = "crashed"
    /\ UNCHANGED <<topic, output_data, filename, filepath, f, trace, before, stamp,
                   runs, now, output_dir, cwd_writable, files>>

\* line 118 without the test: the directory is always taken to be missing
ExistsNever(d) == FALSE

\* line 118: os.path.exists(output_dir)
Exists(d) == d \in {"dir", "file"}

\* line 119: os.makedirs(output_dir), which has no exist_ok: "ok" or the error
Makedirs(d, writable) ==
    IF d # "absent" THEN "FileExistsError"
    ELSE IF writable THEN "ok" ELSE "PermissionError"

\* lines 117-119: the directory is there, or is created
EnsureDir ==
    /\ pc = "ensure_dir"
    /\ \/ /\ Exists(output_dir)
          /\ output_dir' = output_dir
       \/ /\ ~Exists(output_dir)
          /\ Makedirs(output_dir, cwd_writable) = "ok"
          /\ output_dir' = "dir"
    /\ trace' = Append(trace, "ensure_dir")
    /\ pc' = "filename"
    /\ UNCHANGED <<topic, output_data, filename, filepath, f, printed, exc, raised,
                   before, stamp, runs, now, cwd_writable, files>>

\* line 119: os.makedirs raises; the call is outside the try of line 127
EnsureDirRaises ==
    /\ pc = "ensure_dir"
    /\ ~Exists(output_dir)
    /\ Makedirs(output_dir, cwd_writable) # "ok"
    /\ raised' = <<[site |-> "makedirs", kind |-> "OSError"]>>
    /\ exc' = "OSError"
    /\ pc' = "crashed"
    /\ UNCHANGED <<topic, output_data, filename, filepath, f, printed, trace, before,
                   stamp, runs, now, output_dir, cwd_writable, files>>

\* lines 122-124
DeriveFilename ==
    /\ pc = "filename"
    /\ stamp' = now
    /\ filename' = Filename(topic, now)
    /\ filepath' = Join(Str_output, Filename(topic, now))
    /\ trace' = Append(trace, "filename")
    /\ pc' = "open"
    /\ UNCHANGED <<topic, output_data, f, printed, exc, raised, before, runs, now,
                   output_dir, cwd_writable, files>>

\* an except clause that catches nothing
CaughtNothing(kind) == FALSE

\* an except clause that catches everything
CaughtAll(kind) == TRUE

\* line 135: except IOError
Caught(kind) == kind = "OSError"

\* an exception of the try block that is swallowed: control falls through to line 131
AfterRaiseFallsThrough(kind) == "report"

\* lines 127-136: where control goes when the try block raises `kind`
AfterRaise(kind) == IF Caught(kind) THEN "except" ELSE "crashed"

\* a file object that is not closed when its block is left
HandleLeftOpen == "open"

\* line 128: the with statement closes the file when its block is left
HandleAfterWith == "closed"

HasNul(path) == \E i \in 1..Len(path) : path[i] = NUL

\* line 128: what open(filepath, 'w') can do: a path with chr(0) is a
\* ValueError, a path through something that is no directory an OSError, and
\* otherwise the file is opened unless the system refuses (OSError)
OpenOutcomes(path, d) ==
    IF HasNul(path) THEN {"ValueError"}
    ELSE IF d # "dir" THEN {"OSError"}
    ELSE {"ok", "OSError"}

\* line 128: the file is created or truncated
Open ==
    /\ pc = "open"
    /\ "ok" \in OpenOutcomes(filepath, output_dir)
    /\ files' = (filepath :> <<>>) @@ files
    /\ f' = "open"
    /\ trace' = Append(trace, "write")
    /\ pc' = "dump"
    /\ UNCHANGED <<topic, output_data, filename, filepath, printed, exc, raised,
                   before, stamp, runs, now, output_dir, cwd_writable>>

\* line 128: open raises
OpenRaises ==
    /\ pc = "open"
    /\ \E kind \in OpenOutcomes(filepath, output_dir) \ {"ok"} :
          /\ raised' = <<[site |-> "open", kind |-> kind]>>
          /\ pc' = AfterRaise(kind)
          /\ exc' = IF AfterRaise(kind) = "crashed" THEN kind ELSE "none"
    /\ trace' = Append(trace, "write")
    /\ UNCHANGED <<topic, output_data, filename, filepath, f, printed, before, stamp,
                   runs, now, output_dir, cwd_writable, files>>

\* lines 128-130: json.dump writes the whole record and the with block is left
Dump ==
    /\ pc = "dump"
    /\ files' = [files EXCEPT ![filepath] = JsonItems(output_data[1])]
    /\ f' = HandleAfterWith
    /\ pc' = "report"
    /\ UNCHANGED <<topic, output_data, filename, filepath, printed, exc, raised,
                   trace, before, stamp, runs, now, output_dir, cwd_writable>>

\* lines 128-130: json.dump raises after writing n members: an OSError of
\* f.write, or a TypeError for a value it cannot serialise; the with statement
\* closes the file before the exception goes on
DumpRaises ==
    /\ pc = "dump"
    /\ \E n \in 0..(Len(JsonItems(output_data[1])) - 1) :
          files' = [files EXCEPT ![filepath] = SubSeq(JsonItems(output_data[1]), 1, n)]
    /\ f' = HandleAfterWith
    /\ \E kind \in {"OSError", "TypeError"} :
          /\ raised' = <<[site |-> "dump", kind |-> kind]>>
          /\ pc' = AfterRaise(kind)
          /\ exc' = IF AfterRaise(kind) = "crashed" THEN kind ELSE "none"
    /\ UNCHANGED <<topic, output_data, filename, filepath, printed, trace, before,
                   stamp, runs, now, output_dir, cwd_writable>>

\* lines 131-133
Report ==
    /\ pc = "report"
    /\ printed' = printed \o <<MsgSaved, MsgSavedTo, MsgPhase2>>
    /\ trace' = Append(trace, "report")
    /\ pc' = "done"
    /\ UNCHANGED <<topic, output_data, filename, filepath, f, exc, raised, before,
                   stamp, runs, now, output_dir, cwd_writable, files>>

\* lines 135-136
Except ==
    /\ pc = "except"
    /\ printed' = Append(printed, MsgFailed)
    /\ trace' = Append(trace, "report")
    /\ pc' = "done"
    /\ UNCHANGED <<topic, output_data, filename, filepath, f, exc, raised, before,
                   stamp, runs, now, output_dir, cwd_writable, files>>

Next ==
    \/ Tick
    \/ ClockSetBack
    \/ Invoke
    \/ GenerateReturns
    \/ GenerateRaises
    \/ EnsureDir
    \/ EnsureDirRaises
    \/ DeriveFilename
    \/ Open
    \/ OpenRaises
    \/ Dump
    \/ DumpRaises
    \/ Report
    \/ Except

Spec == Init /\ [][Next]_vars

-----------------------------------------------------------------------------
(* Vocabulary of the properties *)

Range(s) == {s[i] : i \in 1..Len(s)}

Terminal == pc \in {"done", "crashed"}

\* the try block (open, json.dump) raised an OSError
IOFailure ==
    /\ raised # <<>>
    /\ raised[1].site \in {"open", "dump"}
    /\ raised[1].kind = "OSError"

LinearOrder == <<"generate", "ensure_dir", "filename", "write", "report">>

IsPrefix(s, t) == Len(s) <= Len(t) /\ SubSeq(t, 1, Len(s)) = s

DigitVal(c) == CHOOSE n \in 0..9 : Digit(n) = c

RECURSIVE ToNat(_)
ToNat(s) == IF s = <<>> THEN 0
            ELSE 10 * ToNat(SubSeq(s, 1, Len(s) - 1)) + DigitVal(s[Len(s)])

\* the filename the specification describes for topic t: every space, '/' and
\* ':' is '_', every letter is lower-case, then '_' and the rest
DescribedStem(t) ==
    [i \in 1..Len(t) |->
        IF t[i] \in {" ", "/", ":"} THEN "_"
        ELSE IF t[i] \in DOMAIN UpperToLower THEN UpperToLower[t[i]] ELSE t[i]] \o <<"_">>

-----------------------------------------------------------------------------
(* Properties *)

\* C1: an I/O failure (OSError) raised while opening or writing the output
\* file is caught inside main: no exception leaves main, the handler of line
\* 135 is reached and can always run, and once main has returned its last
\* message is the failure message.
C1_IOFailureCaught ==
    IOFailure =>
        /\ exc = "none"
        /\ pc \in {"except", "done"}
        /\ pc = "except" => ENABLED Except
        /\ pc = "done" => printed[Len(printed)] = MsgFailed

C1_Witness ==
    /\ pc = "done"
    /\ IOFailure
    /\ raised[1].site = "dump"
    /\ printed[Len(printed)] = MsgFailed

\* C2: whenever the output directory cannot be created (after the run, "output"
\* is still no directory), main has printed the failure message and returned
\* normally: no exception escaped.
C2_DirFailureReported ==
    (Terminal /\ output_data # <<>> /\ output_dir # "dir" /\ ~HasNul(topic)) =>
        /\ pc = "done"
        /\ exc = "none"
        /\ MsgFailed \in Range(printed)

\* C3: an invocation with topic "AI in Creative Automation" that completes
\* without a write failure has produced exactly one new file under output/,
\* named ai_in_creative_automation_<YYYYMMDD_HHMMSS>.json, holding the record.
C3_OneNewFilePerRun ==
    (pc = "done" /\ MsgSaved \in Range(printed) /\ topic = Str_AI_in_Creative_Automation) =>
        /\ DOMAIN files \ before = {filepath}
        /\ filepath = Join(Str_output, DescribedStem(topic) \o Strftime(stamp)
                                         \o <<".","j","s","o","n">>)
        /\ files[filepath] = JsonItems(output_data[1])

\* C4: the record generate_content_data returns has exactly 3 newsletters,
\* their persona fields are the names of the personas list in the same order,
\* and each has a non-empty subject_line and a non-empty body, for every topic.
C4_ThreeNewslettersInPersonaOrder ==
    output_data # <<>> =>
        LET nl == output_data[1].newsletters IN
        /\ output_data[1].topic = topic
        /\ Len(nl) = 3
        /\ Len(personas) = 3
        /\ \A i \in 1..3 :
              /\ nl[i].persona = personas[i].name
              /\ nl[i].subject_line # ""
              /\ nl[i].body # ""

C4_Witness ==
    /\ output_data # <<>>
    /\ topic = Str_AI_Creative_Test
    /\ pc = "ensure_dir"

\* C5: the filename is the function of (topic, timestamp) the specification
\* describes: the topic with space, '/' and ':' replaced by '_' and letters
\* lower-cased, '_', the timestamp as YYYYMMDD_HHMMSS (8 digits of the date,
\* '_', 6 digits of the time of day), and ".json"; the topic
\* "AI/Creative: Test" gives "ai_creative__test_<t>.json".
C5_FilenameDerivation ==
    filename # <<>> =>
        LET stem == DescribedStem(topic)
            ts == SubSeq(filename, Len(stem) + 1, Len(stem) + 15)
        IN
        /\ Len(filename) = Len(stem) + 15 + 5
        /\ SubSeq(filename, 1, Len(stem)) = stem
        /\ SubSeq(filename, Len(stem) + 16, Len(filename)) = <<".","j","s","o","n">>
        /\ \A i \in (1..15) \ {9} : \E n \in 0..9 : ts[i] = Digit(n)
        /\ ts[9] = "_"
        /\ ToNat(SubSeq(ts, 1, 4)) = Today.year
        /\ ToNat(SubSeq(ts, 5, 6)) = Today.month
        /\ ToNat(SubSeq(ts, 7, 8)) = Today.day
        /\ ToNat(SubSeq(ts, 10, 11)) * 3600 + ToNat(SubSeq(ts, 12, 13)) * 60
              + ToNat(SubSeq(ts, 14, 15)) = stamp
        /\ ToNat(SubSeq(ts, 12, 13)) < 60
        /\ ToNat(SubSeq(ts, 14, 15)) < 60
        /\ topic = Str_AI_Creative_Test =>
              SubSeq(filename, 1, 18) =
                 <<"a","i","_","c","r","e","a","t","i","v","e","_","_","t","e","s","t","_">>
        /\ filepath = Join(Str_output, filename)

C5_Witness ==
    /\ filename # <<>>
    /\ topic = Str_AI_Creative_Test
    /\ stamp = StartSec + SleepSecs

\* C6: the ensure-directory step is idempotent: when "output" is already
\* present the step changes nothing on the filesystem and raises no error,
\* and when it is absent and can be created it is created.
C6_EnsureDirIdempotent ==
    [][(pc = "ensure_dir" /\ pc' # pc) =>
          /\ output_dir # "absent" =>
                /\ pc' = "filename"
                /\ exc' = "none"
                /\ raised' = <<>>
                /\ output_dir' = output_dir
                /\ files' = files
          /\ (output_dir = "absent" /\ cwd_writable) =>
                /\ pc' = "filename"
                /\ output_dir' = "dir"
                /\ files' = files]_vars

C6_Witness ==
    /\ runs = 2
    /\ pc = "filename"
    /\ output_dir = "dir"
    /\ DOMAIN files # {}

\* C7: only the OSError of the try block is recovered: any other failure of a
\* run (in generate_content_data, in the directory creation, a non-I/O error
\* of the write block) leaves main as it was raised, and the failure message
\* of the handler is printed for nothing but an OSError of the try block.
C7_OnlyWriteFailureRecovered ==
    /\ (raised # <<>> /\ ~IOFailure) =>
          /\ pc = "crashed"
          /\ exc = raised[1].kind
          /\ MsgFailed \notin Range(printed)
    /\ MsgFailed \in Range(printed) => IOFailure
    /\ pc = "except" => IOFailure
    /\ exc # "none" => (raised # <<>> /\ ~IOFailure)

C7_Witness ==
    /\ pc = "crashed"
    /\ raised = <<[site |-> "dump", kind |-> "TypeError"]>>
    /\ exc = "TypeError"
    /\ MsgFailed \notin Range(printed)

\* C8: a run of main takes its steps in the order generate, ensure directory,
\* compute filename, write, report, each once; a run that completes has taken
\* all five; and nothing on the filesystem changes and no file is opened
\* before generate_content_data has returned its record.
C8_LinearSequence ==
    /\ [](/\ IsPrefix(trace, LinearOrder)
          /\ pc = "done" => trace = LinearOrder)
    /\ [][output_data' = <<>> =>
             /\ output_dir' = output_dir
             /\ files' = files
             /\ f' # "open"]_vars

C8_Witness ==
    /\ pc = "done"
    /\ trace = LinearOrder
    /\ MsgSaved \in Range(printed)
    /\ runs = 2

\* C9: the file handle is open only during the write step and is closed
\* whenever the write block has been left, by success, by an OSError or by any
\* other error: no terminal state has the handle open.
C9_HandleReleased ==
    /\ f = "open" => pc = "dump"
    /\ pc \in {"report", "except", "done", "crashed"} => f # "open"
    /\ (raised # <<>> /\ raised[1].site = "dump") => f = "closed"

C9_Witness ==
    /\ pc = "crashed"
    /\ raised # <<>>
    /\ raised[1].site = "dump"
    /\ raised[1].kind = "TypeError"
    /\ f = "closed"

\* C10: a run that reached the write step and returned normally printed
\* exactly one of the two reports: the success report only with the whole
\* record written and the handle closed, the failure report only after an
\* OSError of the open or the write, with no success report before it.
C10_ExactlyOneReport ==
    /\ (pc = "done" /\ "write" \in Range(trace)) =>
          (MsgSaved \in Range(printed)) # (MsgFailed \in Range(printed))
    /\ MsgSaved \in Range(printed) =>
          /\ raised = <<>>
          /\ f = "closed"
          /\ files[filepath] = JsonItems(output_data[1])
    /\ MsgFailed \in Range(printed) =>
          /\ IOFailure
          /\ MsgSaved \notin Range(printed)

C10_Witness ==
    /\ pc = "done"
    /\ raised = <<[site |-> "open", kind |-> "OSError"]>>
    /\ MsgFailed \in Range(printed)
    /\ MsgSaved \notin Range(printed)

====
